---- MODULE Spec2Model ----
(***************************************************************************)
(* A model of wdtools' parametric.py: the class LineProfiles.               *)
(*                                                                          *)
(* Wavelengths are integers in units of 0.01 Angstrom (6564.61 A is         *)
(* 656461).  Strings built by concatenation ('rf_model_' + training_set +   *)
(* line_ident, linename[0] + '_fwhm') are sequences of their pieces, so     *)
(* that two different inputs with the same pieces give the same string.     *)
(* The numerical collaborators (scipy curve_fit, lmfit VoigtModel.fit,      *)
(* scipy gaussian_kde, sklearn RandomForestRegressor) are modelled by the   *)
(* outcomes the code distinguishes: they return, or they raise.  The flux   *)
(* of a spectrum enters the program only through those numerical fits, so   *)
(* a spectrum is modelled by its wavelength array and the outcome of each   *)
(* fit is an input.                                                         *)
(***************************************************************************)
EXTENDS Integers, Sequences, FiniteSets, TLC

\* ------------------------------------------------------------------ bounds
MaxBootstrap == 2
MaxTrees == 2
MaxExamples == 1
MaxSamples == 4
MaxLines == 2

\* ------------------------------------------------- the registries of __init__
linedict ==
    [alpha |-> 656461, beta |-> 486268, gamma |-> 434168, delta |-> 410289,
     epsilon |-> 397120, zeta |-> 389012, neta |-> 383550, theta |-> 379950]

window_dict ==
    [alpha |-> 40000, beta |-> 40000, gamma |-> 15000, delta |-> 7500,
     epsilon |-> 5000, zeta |-> 4000, neta |-> 3000, theta |-> 2000]

edge_dict ==
    [alpha |-> 20000, beta |-> 20000, gamma |-> 7500, delta |-> 6500,
     epsilon |-> 1000, zeta |-> 1000, neta |-> 1000, theta |-> 800]

fit_params == <<"amp", "center", "sigma", "gamma", "fwhm", "height">>

\* linename[0]: the first character of a line name.  "apple" is a name that
\* is not in the registry and shares its initial with "alpha".
FirstChar ==
    [alpha |-> "a", beta |-> "b", gamma |-> "g", delta |-> "d",
     epsilon |-> "e", zeta |-> "z", neta |-> "n", theta |-> "t",
     apple |-> "a"]

\* The features and the line_ident the constructor derives from lines.
RECURSIVE FeaturesOf(_)
FeaturesOf(ls) ==
    IF ls = <<>> THEN <<>>
    ELSE <<  <<FirstChar[Head(ls)], "_fwhm">>, <<FirstChar[Head(ls)], "_height">>  >>
         \o FeaturesOf(Tail(ls))

RECURSIVE LineIdentOf(_)
LineIdentOf(ls) ==
    IF ls = <<>> THEN <<"_">>
    ELSE LET front == LineIdentOf(SubSeq(ls, 1, Len(ls) - 1))
         IN  Append(front, FirstChar[ls[Len(ls)]])

\* 'rf_model_' + training_set + self.line_ident
ModelName(training_set, line_ident) == <<"rf_model_", training_set>> \o line_ident

\* ------------------------------------------------------------ input domains
\* The (training_set, lines) arguments constructors are called with.
CtorInputs ==
    { <<"Vedant", <<"alpha">> >>, <<"Vedant", <<"apple">> >>,
      <<"Tremblay", <<"alpha", "beta">> >> }
ModelNames == { ModelName(in[1], LineIdentOf(in[2])) : in \in CtorInputs }
FeatureVals == {"finite", "nan", "inf"}
\* The rows df[self.features] of the instances those constructors build.
FeatureVectors ==
    UNION { [DOMAIN FeaturesOf(in[2]) -> FeatureVals] : in \in CtorInputs }

VARIABLES
    disk,    \* models/<modelname>.p : the pickled collections
    obj,     \* the LineProfiles instance
    pc,      \* the statement the running call is at ("idle": no call runs)
    frame,   \* the locals of the running call
    ret,     \* the outcome of the last completed call
    spectrum \* the caller's wavelength array wl

vars == <<disk, obj, pc, frame, ret, spectrum>>

\* ------------------------------------------------------------------ values
Absent == [state |-> "absent", models |-> <<>>]
Corrupt == [state |-> "corrupt", models |-> <<>>]
Pickled(models) == [state |-> "ok", models |-> models]

NoInst ==
    [exists |-> FALSE, lines |-> <<>>, n_trees |-> 0, n_bootstrap |-> 0,
     features |-> <<>>, line_ident |-> <<>>, bootstrap_models |-> <<>>]

NoSpectrum == [wl |-> <<>>]

NoFrame ==
    [training_set |-> "", caller |-> "", nx |-> 0, i |-> 0, before |-> 0,
     hasInf |-> FALSE, hasNaN |-> FALSE, colnames |-> <<>>, parameters |-> <<>>,
     visited |-> <<>>, failed |-> {}]

NoRet ==
    [op |-> "", status |-> "", how |-> "", error |-> "", labels |-> <<>>,
     hasNaN |-> FALSE, hasInf |-> FALSE, consulted |-> 0, nx |-> 0, before |-> 0,
     training_set |-> "", name |-> <<>>, colnames |-> <<>>, parameters |-> <<>>,
     visited |-> <<>>, failed |-> {}, used |-> <<>>,
     centroid |-> 0, window |-> 0, edges |-> 0]

\* One trained RandomForestRegressor: the number of its estimators_, and whether
\* the sample it was fitted on had no example.
Forest(n_trees, nx) == [trees |-> n_trees, empty_sample |-> (nx = 0)]

\* ------------------------------------------------------- persistence (325-330)
\* pickle.load(open(...)) raises when the file is absent or cannot be unpickled.
LoadRaises(blob) == blob.state # "ok"

\* The name initialize saves under (line 126).
InitializeSaveNameOther(training_set, line_ident) == ModelName("wd", <<>>)
InitializeSaveName(training_set, line_ident) == ModelName(training_set, line_ident)

\* The name the constructor loads from (line 64).
CtorLoadName(training_set, line_ident) == ModelName(training_set, line_ident)

\* --------------------------------------------------------- train (254-270)
\* self.bootstrap_models = [] : train starts from an empty collection.
TrainResetKeeps(models) == models
TrainReset(models) == <<>>

\* scipy.stats.gaussian_kde(y_data.T) raises ValueError on a dataset with no
\* element (line 255).
KdeAcceptsEmpty(nx) == FALSE
KdeRaises(nx) == nx = 0

\* An exception leaving the running call: a constructor that raises yields no
\* instance; any other call leaves the instance as it is at that point.
Raise(o, op, error) ==
    /\ obj' = IF frame.caller = "init" THEN NoInst ELSE o
    /\ pc' = "idle"
    /\ ret' = [NoRet EXCEPT !.op = op, !.status = "raised", !.error = error,
                            !.nx = frame.nx, !.before = frame.before,
                            !.training_set = frame.training_set]
    /\ frame' = NoFrame

\* ------------------------------------------------------- __init__ (29-70)
\* Lines 31-59: the attributes the constructor sets before it looks at fit_profiles.
NewInstance(n_trees, n_bootstrap, lines) ==
    [exists |-> TRUE, lines |-> lines, n_trees |-> n_trees,
     n_bootstrap |-> n_bootstrap, features |-> FeaturesOf(lines),
     line_ident |-> LineIdentOf(lines), bootstrap_models |-> <<>>]

Construct(fit_profiles, training_set, n_trees, n_bootstrap, lines) ==
    /\ pc = "idle"
    /\ UNCHANGED spectrum
    /\ obj' = NewInstance(n_trees, n_bootstrap, lines)
    /\ IF fit_profiles
       THEN /\ pc' = "idle"
            /\ frame' = NoFrame
            /\ ret' = [NoRet EXCEPT !.op = "init", !.status = "returned",
                                    !.how = "fit_profiles"]
       ELSE /\ pc' = "ctor_load"
            /\ frame' = [NoFrame EXCEPT !.training_set = training_set,
                                        !.caller = "init"]
            /\ ret' = NoRet
    /\ UNCHANGED disk

\* try: self.load('rf_model_' + training_set + self.line_ident)  except: ...
CtorLoad ==
    /\ pc = "ctor_load"
    /\ UNCHANGED spectrum
    /\ LET name == CtorLoadName(frame.training_set, obj.line_ident)
       IN  IF LoadRaises(disk[name])
           THEN /\ pc' = "initialize"
                /\ UNCHANGED <<obj, frame, ret>>
           ELSE /\ obj' = [obj EXCEPT !.bootstrap_models = disk[name].models]
                /\ pc' = "idle"
                /\ frame' = NoFrame
                /\ ret' = [NoRet EXCEPT !.op = "init", !.status = "returned",
                                        !.how = "loaded", !.name = name,
                                        !.training_set = frame.training_set]
    /\ UNCHANGED disk

\* initialize, lines 84-123: read the catalog, keep the rows that pass the
\* quality cuts (nx of them), and call train on them.
Initialize ==
    /\ pc = "initialize"
    /\ UNCHANGED spectrum
    /\ \E nx \in 0..MaxExamples : frame' = [frame EXCEPT !.nx = nx]
    /\ pc' = "train"
    /\ UNCHANGED <<disk, obj, ret>>

\* A call of train(x_data, y_data) on an instance, with nx examples.
TrainCall(nx) ==
    /\ pc = "idle"
    /\ UNCHANGED spectrum
    /\ obj.exists
    /\ frame' = [NoFrame EXCEPT !.caller = "train", !.nx = nx,
                                !.before = Len(obj.bootstrap_models)]
    /\ pc' = "train"
    /\ ret' = NoRet
    /\ UNCHANGED <<disk, obj>>

\* train, lines 254-258: reset the collection, estimate the label density.
TrainBegin ==
    /\ pc = "train"
    /\ UNCHANGED spectrum
    /\ LET o == [obj EXCEPT !.bootstrap_models = TrainReset(obj.bootstrap_models)]
       IN  IF KdeRaises(frame.nx)
           THEN Raise(o, frame.caller, "gaussian_kde")
           ELSE /\ obj' = o
                /\ pc' = "train_loop"
                /\ frame' = [frame EXCEPT !.i = 0]
                /\ ret' = ret
    /\ UNCHANGED disk

\* train, lines 260-270: one iteration of the bootstrap loop, or the return.
TrainLoop ==
    /\ pc = "train_loop"
    /\ UNCHANGED spectrum
    /\ IF frame.i < obj.n_bootstrap
       THEN /\ obj' = [obj EXCEPT !.bootstrap_models =
                               Append(@, Forest(obj.n_trees, frame.nx))]
            /\ frame' = [frame EXCEPT !.i = @ + 1]
            /\ UNCHANGED <<pc, ret>>
       ELSE IF frame.caller = "init"
            THEN /\ pc' = "save"
                 /\ UNCHANGED <<obj, frame, ret>>
            ELSE /\ pc' = "idle"
                 /\ ret' = [NoRet EXCEPT !.op = "train", !.status = "returned",
                                         !.nx = frame.nx, !.before = frame.before]
                 /\ frame' = NoFrame
                 /\ obj' = obj
    /\ UNCHANGED disk

\* initialize, line 126: self.save('rf_model_' + training_set + self.line_ident)
InitializeSave ==
    /\ pc = "save"
    /\ UNCHANGED spectrum
    /\ LET name == InitializeSaveName(frame.training_set, obj.line_ident)
       IN  /\ disk' = [n \in DOMAIN disk \cup {name} |->
                          IF n = name THEN Pickled(obj.bootstrap_models) ELSE disk[n]]
           /\ ret' = [NoRet EXCEPT !.op = "init", !.status = "returned",
                                   !.how = "trained", !.name = name,
                                   !.nx = frame.nx,
                                   !.training_set = frame.training_set]
    /\ pc' = "idle"
    /\ frame' = NoFrame
    /\ UNCHANGED obj

\* A call of save(modelname) on an instance (lines 325-327).
SaveCall(name) ==
    /\ pc = "idle"
    /\ UNCHANGED spectrum
    /\ obj.exists
    /\ disk' = [disk EXCEPT ![name] = Pickled(obj.bootstrap_models)]
    /\ ret' = [NoRet EXCEPT !.op = "save", !.status = "returned", !.name = name]
    /\ UNCHANGED <<obj, pc, frame>>

\* A call of load(modelname) on an instance (line 330).
LoadCall(name) ==
    /\ pc = "idle"
    /\ UNCHANGED spectrum
    /\ obj.exists
    /\ IF LoadRaises(disk[name])
       THEN /\ ret' = [NoRet EXCEPT !.op = "load", !.status = "raised",
                                    !.error = "pickle.load", !.name = name]
            /\ obj' = obj
       ELSE /\ obj' = [obj EXCEPT !.bootstrap_models = disk[name].models]
            /\ ret' = [NoRet EXCEPT !.op = "load", !.status = "returned",
                                    !.name = name]
    /\ UNCHANGED <<disk, pc, frame>>

\* ------------------------------------------ labels_from_parameters (288-322)
NaN4 == <<"nan", "nan", "nan", "nan">>
Finite4 == <<"finite", "finite", "finite", "finite">>

Range(f) == { f[k] : k \in DOMAIN f }

\* np.isnan(balmer_parameters).any()
AnyIsNan(fv) == \E k \in DOMAIN fv : fv[k] = "nan"

\* Lines 288-300: project the features, return the sentinel on a NaN.
PredictCall(fv) ==
    /\ pc = "idle"
    /\ UNCHANGED spectrum
    /\ obj.exists
    /\ DOMAIN fv = DOMAIN obj.features
    /\ LET hasInf == "inf" \in Range(fv)
           hasNaN == "nan" \in Range(fv)
       IN  IF AnyIsNan(fv)
           THEN /\ ret' = [NoRet EXCEPT !.op = "predict", !.status = "returned",
                                        !.labels = NaN4, !.hasNaN = hasNaN,
                                        !.hasInf = hasInf]
                /\ UNCHANGED <<pc, frame>>
           ELSE /\ pc' = "predict_loop"
                /\ frame' = [NoFrame EXCEPT !.caller = "predict", !.hasInf = hasInf,
                                            !.hasNaN = hasNaN]
                /\ ret' = NoRet
    /\ UNCHANGED <<disk, obj>>

PredictRaise(error) ==
    /\ ret' = [NoRet EXCEPT !.op = "predict", !.status = "raised", !.error = error,
                            !.hasInf = frame.hasInf, !.hasNaN = frame.hasNaN,
                            !.consulted = frame.i]
    /\ pc' = "idle"
    /\ frame' = NoFrame

\* Lines 302-322: iteration kk of the loop over range(self.n_bootstrap), which
\* reads self.bootstrap_models[kk].estimators_[jj] for jj in range(self.n_trees)
\* and calls predict on each (sklearn rejects an infinite input); then the return.
PredictLoop ==
    /\ pc = "predict_loop"
    /\ UNCHANGED spectrum
    /\ LET kk == frame.i
       IN  IF kk < obj.n_bootstrap
           THEN IF kk >= Len(obj.bootstrap_models)
                THEN PredictRaise("IndexError")
                ELSE IF frame.hasInf
                THEN PredictRaise("ValueError")
                ELSE IF obj.bootstrap_models[kk + 1].trees < obj.n_trees
                THEN PredictRaise("IndexError")
                ELSE /\ frame' = [frame EXCEPT !.i = kk + 1]
                     /\ UNCHANGED <<pc, ret>>
           ELSE /\ ret' = [NoRet EXCEPT !.op = "predict", !.status = "returned",
                                        !.labels = Finite4, !.consulted = kk,
                                        !.hasInf = frame.hasInf,
                                        !.hasNaN = frame.hasNaN]
                /\ pc' = "idle"
                /\ frame' = NoFrame
    /\ UNCHANGED <<disk, obj>>

\* ------------------------------------------------------------ specification
Init ==
    /\ \E blob \in {Absent, Corrupt} : disk = [n \in ModelNames |-> blob]
    /\ obj = NoInst
    /\ pc = "idle"
    /\ frame = NoFrame
    /\ ret = NoRet
    /\ spectrum = NoSpectrum

Next ==
    \/ \E fp \in BOOLEAN, in \in CtorInputs, nt \in 1..MaxTrees, nb \in 1..MaxBootstrap :
          Construct(fp, in[1], nt, nb, in[2])
    \/ CtorLoad
    \/ Initialize
    \/ \E nx \in 0..MaxExamples : TrainCall(nx)
    \/ TrainBegin
    \/ TrainLoop
    \/ InitializeSave
    \/ \E name \in ModelNames : LoadCall(name)
    \/ \E name \in ModelNames : SaveCall(name)
    \/ \E fv \in FeatureVectors : PredictCall(fv)
    \/ PredictLoop

Spec == Init /\ [][Next]_vars

\* ================================================================ fitting
\* The wavelengths spectra are sampled at: around H-beta (window 4462.68 to
\* 5262.68, core within 200 A of 4862.68) and H-alpha (window 6164.61 to
\* 6964.61), on the ends of those windows, and beyond them.
Grid == {446268, 520000, 626461, 656461, 686461, 696461, 700000}

RECURSIVE Ascending(_)
Ascending(S) ==
    IF S = {} THEN <<>>
    ELSE LET m == CHOOSE x \in S : \A y \in S : x <= y
         IN  <<m>> \o Ascending(S \ {m})

\* The wavelength arrays: strictly ascending, at most MaxSamples samples.
Wavelengths == { Ascending(S) : S \in { T \in SUBSET Grid : Cardinality(T) <= MaxSamples } }

LineNames == {"alpha", "beta", "apple"}
\* The configured lines: up to MaxLines names, none twice.
FitLines ==
    { ls \in UNION { [1..n -> LineNames] : n \in 1..MaxLines } :
        \A j, k \in DOMAIN ls : ls[j] = ls[k] => j = k }

\* bisect.bisect_left(a, x): the first index (from 0) whose element is not below x.
RECURSIVE BisectLeftFrom(_, _, _, _)
BisectLeftFrom(a, x, lo, hi) ==
    IF lo < hi
    THEN LET mid == (lo + hi) \div 2
         IN  IF a[mid + 1] < x
             THEN BisectLeftFrom(a, x, mid + 1, hi)
             ELSE BisectLeftFrom(a, x, lo, mid)
    ELSE lo

BisectLeft(a, x) == BisectLeftFrom(a, x, 0, Len(a))

\* a[in1:in2], a Python slice: indices from 0, in2 excluded and cut to the
\* length, empty if in2 <= in1.
Slice(a, in1, in2) == SubSeq(a, in1 + 1, IF in2 > Len(a) THEN Len(a) ELSE in2)

\* Lines 156-159: the samples fit_line works on.
CropOneMore(wl, centroid, window) ==
    [in1 |-> BisectLeft(wl, centroid - window),
     in2 |-> BisectLeft(wl, centroid + window) + 1]
Crop(wl, centroid, window) ==
    [in1 |-> BisectLeft(wl, centroid - window),
     in2 |-> BisectLeft(wl, centroid + window)]

\* Line 161: the continuum mask over the cropped samples.
Cmask(cropped_wl, centroid, edges) ==
    [k \in DOMAIN cropped_wl |->
        (cropped_wl[k] < centroid - edges) \/ (cropped_wl[k] > centroid + edges)]

\* The six values of result.params for the line at centroid, in the order of
\* fit_params.
FittedParams(centroid) ==
    [k \in 1..6 |-> [kind |-> "fit", line |-> centroid, param |-> fit_params[k]]]

NaN == [kind |-> "nan", line |-> 0, param |-> ""]

\* fit_line, lines 156-204.  voigt is what VoigtModel.fit does with the
\* normalized samples ("ok": it returns a result, "raise": it raises).
\*  - curve_fit (line 163) raises with fewer continuum samples than the two
\*    parameters of the straight line, and nothing catches it;
\*  - the except clause of lines 176-178 prints and re-raises.
FitLineSwallows(wl, centroid, window, edges, voigt) ==
    LET c == Crop(wl, centroid, window)
        cropped_wl == Slice(wl, c.in1, c.in2)
    IN  [status |-> "returned", error |-> "", used |-> cropped_wl,
         params |-> [k \in 1..6 |-> NaN]]
FitLine(wl, centroid, window, edges, voigt) ==
    LET c == Crop(wl, centroid, window)
        cropped_wl == Slice(wl, c.in1, c.in2)
        cmask == Cmask(cropped_wl, centroid, edges)
        continuum == { k \in DOMAIN cropped_wl : cmask[k] }
    IN  IF Cardinality(continuum) < 2
        THEN [status |-> "raised", error |-> "curve_fit", used |-> cropped_wl,
              params |-> <<>>]
        ELSE IF voigt = "raise"
        THEN [status |-> "raised", error |-> "VoigtModel.fit", used |-> cropped_wl,
              params |-> <<>>]
        ELSE [status |-> "returned", error |-> "", used |-> cropped_wl,
              params |-> FittedParams(centroid)]

\* A call of fit_line(wl, flux, centroid, window, edges) on an instance.  how
\* records what the Voigt fit would do, were it reached.
FitLineCall(centroid, window, edges) ==
    /\ pc = "idle"
    /\ UNCHANGED spectrum
    /\ obj.exists
    /\ \E voigt \in {"ok", "raise"} :
         LET r == FitLine(spectrum.wl, centroid, window, edges, voigt)
         IN  ret' = [NoRet EXCEPT !.op = "fit_line", !.status = r.status, !.how = voigt,
                                  !.error = r.error, !.used = r.used,
                                  !.parameters = r.params,
                                  !.centroid = centroid, !.window = window,
                                  !.edges = edges]
    /\ UNCHANGED <<disk, obj, pc, frame>>

\* ------------------------------------------------------ fit_balmer (226-239)
\* Line 229: the six column names of a line.
Colnames(linename) == [k \in 1..6 |-> <<FirstChar[linename], "_", fit_params[k]>>]

\* Line 237: parameters.extend(np.repeat(np.nan, 6))
ExtendNaNShort(parameters) == parameters \o [k \in 1..5 |-> NaN]
ExtendNaN(parameters) == parameters \o [k \in 1..6 |-> NaN]

\* The for statement of line 228 after the iteration at index i (from 0) of n:
\* the except clause of lines 235-237 does not leave the loop.
AfterIterationBreaks(i, n, failed) == IF failed THEN n ELSE i + 1
AfterIteration(i, n, failed) == i + 1

\* A call of fit_balmer(wl, flux) on an instance: lines 226-227.
FitBalmerCall ==
    /\ pc = "idle"
    /\ UNCHANGED spectrum
    /\ obj.exists
    /\ pc' = "balmer_loop"
    /\ frame' = [NoFrame EXCEPT !.caller = "fit_balmer"]
    /\ ret' = NoRet
    /\ UNCHANGED <<disk, obj>>

BalmerReturn(status, error) ==
    /\ ret' = [NoRet EXCEPT !.op = "fit_balmer", !.status = status, !.error = error,
                            !.colnames = frame.colnames,
                            !.parameters = frame.parameters,
                            !.visited = frame.visited, !.failed = frame.failed]
    /\ pc' = "idle"
    /\ frame' = NoFrame

\* One iteration of the loop of lines 228-237, or lines 238-239 after it.
\* fit is what happens inside the try: the Voigt fit returns ("ok"), raises
\* ("raise"), or the user interrupts it ("interrupt").
BalmerLoop ==
    /\ pc = "balmer_loop"
    /\ UNCHANGED spectrum
    /\ IF frame.i < Len(obj.lines)
       THEN LET linename == obj.lines[frame.i + 1]
                colnames == frame.colnames \o Colnames(linename)
                visited == Append(frame.visited, linename)
            IN  \E fit \in {"ok", "raise", "interrupt"} :
                  IF linename \notin DOMAIN linedict
                  THEN \* self.linedict[linename] raises KeyError inside the try
                       /\ frame' = [frame EXCEPT
                             !.colnames = colnames, !.visited = visited,
                             !.parameters = ExtendNaN(@),
                             !.failed = @ \cup {frame.i},
                             !.i = AfterIteration(frame.i, Len(obj.lines), TRUE)]
                       /\ UNCHANGED <<pc, ret>>
                  ELSE IF fit = "interrupt"
                  THEN BalmerReturn("raised", "KeyboardInterrupt")
                  ELSE LET r == FitLine(spectrum.wl, linedict[linename],
                                        window_dict[linename], edge_dict[linename], fit)
                       IN  /\ frame' = [frame EXCEPT
                                 !.colnames = colnames, !.visited = visited,
                                 !.parameters = IF r.status = "raised"
                                                THEN ExtendNaN(@) ELSE @ \o r.params,
                                 !.failed = IF r.status = "raised"
                                            THEN @ \cup {frame.i} ELSE @,
                                 !.i = AfterIteration(frame.i, Len(obj.lines),
                                                      r.status = "raised")]
                           /\ UNCHANGED <<pc, ret>>
       ELSE \* pd.DataFrame([parameters], columns = colnames) wants as many
            \* columns as values
            IF Len(frame.parameters) = Len(frame.colnames)
            THEN BalmerReturn("returned", "")
            ELSE BalmerReturn("raised", "ValueError")
    /\ UNCHANGED <<disk, obj>>

\* Fitting on an instance built with fit_profiles = True.
InitFit ==
    /\ disk = [n \in ModelNames |-> Absent]
    /\ \E ls \in FitLines : obj = NewInstance(MaxTrees, MaxBootstrap, ls)
    /\ pc = "idle"
    /\ frame = NoFrame
    /\ ret = NoRet
    /\ \E wl \in Wavelengths : spectrum = [wl |-> wl]

FitWindows == {0, 40000}
FitEdges == {20000}

NextFit ==
    \/ \E centroid \in {linedict.alpha, linedict.beta}, window \in FitWindows,
          edges \in FitEdges : FitLineCall(centroid, window, edges)
    \/ FitBalmerCall
    \/ BalmerLoop

SpecFit == InitFit /\ [][NextFit]_vars

\* ================================================================= claims
Known(linename) == linename \in DOMAIN linedict

\* The six slots of the line at index i (from 0) of a parameter row.
Slots(parameters, i) == SubSeq(parameters, 6 * i + 1, 6 * i + 6)

\* The samples of the spectrum curve_fit gets for a line: inside the window
\* (its upper end excluded) and further than edges from the centroid.
ContinuumSamples(centroid, window, edges) ==
    { k \in DOMAIN spectrum.wl :
        /\ centroid - window <= spectrum.wl[k]
        /\ spectrum.wl[k] < centroid + window
        /\ \/ spectrum.wl[k] < centroid - edges
           \/ spectrum.wl[k] > centroid + edges }

\* C1: whenever fit_balmer is not interrupted by the user it returns, and the
\* row it returns has exactly 6 * len(lines) parameter values and as many
\* column names, whichever of the line fits failed.
C1_ExtractLength ==
    (ret.op = "fit_balmer" /\ ret.error # "KeyboardInterrupt") =>
        /\ ret.status = "returned"
        /\ Len(ret.parameters) = 6 * Len(obj.lines)
        /\ Len(ret.colnames) = 6 * Len(obj.lines)

\* fit_balmer has returned a row in which one line failed and another did not.
C1_Witness ==
    /\ ret.op = "fit_balmer"
    /\ ret.status = "returned"
    /\ ret.failed # {}
    /\ Cardinality(ret.failed) < Len(obj.lines)

\* C2: when fit_balmer is not interrupted, every configured line was visited in
\* configured order; the six slots of a line whose fit failed hold NaN, and the
\* six slots of every other line, also one after a failure, hold that line's
\* own fitted parameters.
C2_FailureIsLocal ==
    (ret.op = "fit_balmer" /\ ret.error # "KeyboardInterrupt") =>
        /\ ret.status = "returned"
        /\ ret.visited = obj.lines
        /\ Len(ret.parameters) = 6 * Len(obj.lines)
        /\ \A i \in 0..(Len(obj.lines) - 1) :
              IF i \in ret.failed
              THEN Slots(ret.parameters, i) = [k \in 1..6 |-> NaN]
              ELSE /\ Known(obj.lines[i + 1])
                   /\ Slots(ret.parameters, i) = FittedParams(linedict[obj.lines[i + 1]])

\* The first line failed and the second, after it, was fitted.
C2_Witness ==
    /\ ret.op = "fit_balmer"
    /\ ret.status = "returned"
    /\ Len(obj.lines) >= 2
    /\ 0 \in ret.failed
    /\ 1 \notin ret.failed

\* The stored collection has n_bootstrap ensembles of n_trees estimators.
CollectionComplete ==
    /\ Len(obj.bootstrap_models) = obj.n_bootstrap
    /\ \A k \in DOMAIN obj.bootstrap_models :
          obj.bootstrap_models[k].trees = obj.n_trees

\* C3 as stated: a feature vector with a NaN or an infinite value gets the four
\* NaN labels, without an exception and without any ensemble consulted.  It is
\* stated here for an instance with a complete collection, where nothing else
\* than the non-finite value can make the call raise.
C3_NonFiniteGivesSentinel ==
    (ret.op = "predict" /\ (ret.hasNaN \/ ret.hasInf) /\ CollectionComplete) =>
        /\ ret.status = "returned"
        /\ ret.labels = NaN4
        /\ ret.consulted = 0

\* C4: a constructor called with fit_profiles false that returns has either
\* loaded the blob named from (training_set, line initials), or trained a
\* complete collection and saved exactly it under that name; while it trains
\* nothing is saved under that name yet.
C4_LoadOrTrainThenSave ==
    /\ (ret.op = "init" /\ ret.status = "returned" /\ ret.how # "fit_profiles") =>
          LET name == ModelName(ret.training_set, LineIdentOf(obj.lines))
          IN  /\ name \in DOMAIN disk
              /\ disk[name] = Pickled(obj.bootstrap_models)
              /\ ret.how \in {"loaded", "trained"}
              /\ ret.how = "trained" =>
                    /\ Len(obj.bootstrap_models) = obj.n_bootstrap
                    /\ \A k \in DOMAIN obj.bootstrap_models :
                          obj.bootstrap_models[k].trees = obj.n_trees
    /\ (frame.caller = "init" /\ pc \in {"initialize", "train", "train_loop", "save"}) =>
          LET name == ModelName(frame.training_set, LineIdentOf(obj.lines))
          IN  /\ LoadRaises(disk[name])
              /\ pc = "save" => Len(obj.bootstrap_models) = obj.n_bootstrap

\* A constructor found no usable blob, trained, saved and returned.
C4_Witness ==
    /\ ret.op = "init"
    /\ ret.status = "returned"
    /\ ret.how = "trained"
    /\ disk[ret.name] = Pickled(obj.bootstrap_models)
    /\ Len(obj.bootstrap_models) = obj.n_bootstrap

\* C5: when a train call on a dataset with examples has returned, the collection
\* holds exactly n_bootstrap ensembles of exactly n_trees estimators each,
\* whatever it held before the call.
C5_TrainReplaces ==
    (ret.op = "train" /\ ret.status = "returned") =>
        /\ Len(obj.bootstrap_models) = obj.n_bootstrap
        /\ \A k \in DOMAIN obj.bootstrap_models :
              obj.bootstrap_models[k].trees = obj.n_trees

\* A train call has returned on an instance whose collection was not empty.
C5_Witness ==
    /\ ret.op = "train"
    /\ ret.status = "returned"
    /\ ret.before > 0
    /\ obj.n_bootstrap >= 2

\* C6: training on a dataset with no example raises, from train and from the
\* constructor, and no ensemble fitted on an empty sample is ever in the
\* instance or on disk.
C6_EmptyDatasetFatal ==
    /\ (ret.op = "train" /\ ret.nx = 0) => ret.status = "raised"
    /\ (ret.op = "init" /\ ret.how = "trained") => ret.nx > 0
    /\ pc \in {"train_loop", "save"} => frame.nx > 0
    /\ \A k \in DOMAIN obj.bootstrap_models : ~obj.bootstrap_models[k].empty_sample
    /\ \A n \in DOMAIN disk : \A k \in DOMAIN disk[n].models :
          ~disk[n].models[k].empty_sample

\* A constructor read a catalog with no example left and raised: no instance.
C6_Witness ==
    /\ ret.op = "init"
    /\ ret.status = "raised"
    /\ ret.error = "gaussian_kde"
    /\ ret.nx = 0
    /\ ~obj.exists

\* C7 as stated: no constructor returns an instance configured with a line name
\* that is not in the registry.
C7_UnknownLineRejected ==
    (ret.op = "init" /\ ret.status = "returned") =>
        \A k \in DOMAIN obj.lines : Known(obj.lines[k])

\* C8 as stated: fit_line never raises.
C8_FitLineNeverRaises == ret.op = "fit_line" => ret.status = "returned"

\* C8 amended: fit_line raises to its caller when the continuum fit raises (it
\* does with fewer than two continuum samples, so for an empty window) or the
\* Voigt fit raises; fit_balmer is what turns that into NaN slots, and raises
\* only a KeyboardInterrupt.
C8_FitLinePropagates ==
    /\ ret.op = "fit_line" =>
          /\ Cardinality(ContinuumSamples(ret.centroid, ret.window, ret.edges)) < 2
                => ret.status = "raised"
          /\ ret.how = "raise" => ret.status = "raised"
    /\ (ret.op = "fit_balmer" /\ ret.status = "raised") => ret.error = "KeyboardInterrupt"
    /\ (ret.op = "fit_balmer" /\ ret.status = "returned") =>
          \A i \in 0..(Len(obj.lines) - 1) :
             LET linename == obj.lines[i + 1]
             IN  (/\ Known(linename)
                  /\ Cardinality(ContinuumSamples(linedict[linename],
                         window_dict[linename], edge_dict[linename])) < 2)
                 => i \in ret.failed

\* fit_line raised on a spectrum that has samples, none of them in the window.
C8_Witness ==
    /\ ret.op = "fit_line"
    /\ ret.status = "raised"
    /\ ret.error = "curve_fit"
    /\ ret.used = <<>>
    /\ spectrum.wl # <<>>

\* C9: every sample fit_line works on has its wavelength in
\* [centroid - window, centroid + window].
C9_StaysInWindow ==
    ret.op = "fit_line" =>
        \A k \in DOMAIN ret.used :
            /\ ret.centroid - ret.window <= ret.used[k]
            /\ ret.used[k] <= ret.centroid + ret.window

\* fit_line returned after working on some samples of a spectrum and leaving
\* out others, on both sides.
C9_Witness ==
    /\ ret.op = "fit_line"
    /\ ret.status = "returned"
    /\ Len(ret.used) >= 2
    /\ spectrum.wl[1] < ret.centroid - ret.window
    /\ spectrum.wl[Len(spectrum.wl)] > ret.centroid + ret.window

\* C10 as stated: while labels_from_parameters loops over the collection, the
\* collection has at least n_bootstrap ensembles of at least n_trees estimators.
C10_CollectionCoversCounts ==
    pc = "predict_loop" =>
        /\ Len(obj.bootstrap_models) >= obj.n_bootstrap
        /\ \A k \in DOMAIN obj.bootstrap_models :
              obj.bootstrap_models[k].trees >= obj.n_trees

====
